---- MODULE Spec2Model ----
(***************************************************************************)
(* A model of uitbx.keepers.JSONAttributeKeeper: a keeper that saves a     *)
(* chosen subset of an object's attributes in a JSON file (save) and sets  *)
(* them back (setup), with a registry of converters used by the JSON       *)
(* encoder for values it cannot encode and a registry of setters keyed on  *)
(* the type of the attribute's current value.                              *)
(*                                                                         *)
(* Python values are records [k, s, e]: k is the type, s the payload of a  *)
(* scalar (text of a str, digits of an int, path text of a pathlib.Path)   *)
(* and e the elements of a list or tuple (records [k, s]).                 *)
(***************************************************************************)
EXTENDS Integers, Sequences, FiniteSets, TLC

VARIABLES
    dirs,         \* directory -> [exists, r, w]
    files,        \* path -> [exists, r, w, content]
    cwd,          \* the process's current working directory
    defaultFile,  \* value of the default of __init__'s `file` parameter
    keeper,       \* the keeper: [made, file, attrs]
    obj,          \* the target: [own, cls], its instance and class dictionaries
    saved,        \* tracked values read by the last save() that completed
    dirty,        \* names the caller assigned since the last save()
    lastOp,       \* the call made last: [op, file, attrs, rep]
    outcome,      \* "ok" or the exception the last call raised
    log           \* assignments made by the last setup(), in order

vars == <<dirs, files, cwd, defaultFile, keeper, obj, saved, dirty, lastOp, outcome, log>>

---------------------------------------------------------------------------
(* Bounds *)

\* longest list or tuple held by an attribute
MaxLen == 1

\* calls of setup() in a row that are told apart
MaxRepeat == 2

---------------------------------------------------------------------------
(* Values *)

Dirs == {"/a", "/b"}

RelNames == {"x"}

PrefName == "preferences.json"

AbsNames == {d \o "/" \o r : d \in Dirs, r \in RelNames}

Atom(k, s) == [k |-> k, s |-> s]

Val(k, s, e) == [k |-> k, s |-> s, e |-> e]

Scalar(k, s) == Val(k, s, <<>>)

Absent == Scalar("absent", "")

None == Scalar("null", "")

\* the atoms a caller may put in a list or a tuple
ElemAtoms ==
    {Atom("int", "1"), Atom("path", "/a/x")}

SeqsUpTo(S, n) == UNION {[1..m -> S] : m \in 0..n}

\* the values a caller may assign to an attribute
CallerValues ==
    {Scalar("str", "x"), Scalar("int", "1"), None, Scalar("unsupported", "set")}
        \cup {Scalar("path", p) : p \in RelNames \cup {"/a/x"}}
        \cup {Val("list", "", e) : e \in SeqsUpTo(ElemAtoms, MaxLen) \ {<<>>}}
        \cup {Val("tuple", "", <<Atom("int", "1")>>)}

AttrNames == {"a", "c"}

Path(d, n) == [dir |-> d, name |-> n]

AllDirs == Dirs \cup {"/nodir"}

Paths == {Path(d, PrefName) : d \in AllDirs}

NoFile == Path("", "")

NoContent == [kind |-> "none", pairs |-> <<>>, top |-> None]

NoSuchFile == [exists |-> FALSE, r |-> FALSE, w |-> FALSE, content |-> NoContent]

NoSuchDir == [exists |-> FALSE, r |-> FALSE, w |-> FALSE]

JObject(pairs) == [kind |-> "json", pairs |-> pairs, top |-> Scalar("object", "")]

JOther(v) == [kind |-> "json", pairs |-> <<>>, top |-> v]

Pair(key, v) == [key |-> key, val |-> v]

---------------------------------------------------------------------------
(* The target object: attribute lookup by name *)

\* the instance dictionary first, then the class
hasattr(t, name) ==
    /\ name \in AttrNames
    /\ (t.own[name] # Absent \/ t.cls[name] # Absent)

getattr(t, name) == IF t.own[name] # Absent THEN t.own[name] ELSE t.cls[name]

\* variant: the assignment lands on the class
setattr_OnClass(t, name, v) == [t EXCEPT !.cls[name] = v]

\* an assignment through an instance writes the instance dictionary
setattr(t, name, v) == [t EXCEPT !.own[name] = v]

\* another instance of the class, with no attribute of its own
FreshInstance(t) == [own |-> [n \in AttrNames |-> Absent], cls |-> t.cls]

---------------------------------------------------------------------------
(* validate_file_path *)

PathExists(fs, ds, p) ==
    /\ p \in DOMAIN fs
    /\ ds[p.dir].exists
    /\ fs[p].exists

ParentExists(ds, p) == p.dir \in DOMAIN ds /\ ds[p.dir].exists

\* variant: write permission is not asked for
access_ReadOnly(perm) == perm.exists /\ perm.r

\* os.access(path, R_OK) and os.access(path, W_OK)
access(perm) == perm.exists /\ perm.r /\ perm.w

\* variant: the file is checked even when there is none
path_to_check_File(fs, ds, p) == fs[p]

\* the permissions of what validate_file_path checks: the file when it
\* exists, else its parent directory
path_to_check(fs, ds, p) == IF PathExists(fs, ds, p) THEN fs[p] ELSE ds[p.dir]

validate_file_path(fs, ds, p) ==
    IF ~PathExists(fs, ds, p) /\ ~ParentExists(ds, p)
    THEN [outcome |-> "FileNotFoundError", file |-> NoFile]
    ELSE IF access(path_to_check(fs, ds, p))
         THEN [outcome |-> "ok", file |-> p]
         ELSE [outcome |-> "PermissionError", file |-> NoFile]

---------------------------------------------------------------------------
(* The registries *)

isinstance(v, type) ==
    CASE type = "os.PathLike" -> v.k = "path"
      [] OTHER -> FALSE

IsAbs(s) == s \notin RelNames

\* Path(p).resolve(): an absolute path stays, a relative one is joined to
\* the current working directory
resolve(s, wd) == IF IsAbs(s) THEN s ELSE wd \o "/" \o s

\* converters: os.PathLike -> lambda p: str(Path(p).resolve())
converters == <<"os.PathLike">>

ApplyConverter(type, v, wd) ==
    CASE type = "os.PathLike" -> [ok |-> TRUE, k |-> "str", s |-> resolve(v.s, wd)]

RECURSIVE ConvertFrom(_, _, _)
ConvertFrom(i, v, wd) ==
    IF i > Len(converters)
    THEN [ok |-> FALSE, k |-> "", s |-> ""]
    ELSE IF isinstance(v, converters[i])
         THEN ApplyConverter(converters[i], v, wd)
         ELSE ConvertFrom(i + 1, v, wd)

\* v is a value or an element: only its k and s are read
convert_attr(v, wd) == ConvertFrom(1, v, wd)

---------------------------------------------------------------------------
(* json.dump with default=convert_attr *)

NativeScalar(k) == k \in {"str", "int", "null"}

\* an element of a list or tuple: encoded natively, or by the converter
EncodeAtom(a, wd) ==
    IF NativeScalar(a.k)
    THEN [ok |-> TRUE, k |-> a.k, s |-> a.s]
    ELSE convert_attr(a, wd)

RECURSIVE EncodeElems(_, _)
EncodeElems(e, wd) ==
    IF e = <<>>
    THEN [ok |-> TRUE, e |-> <<>>]
    ELSE LET h == EncodeAtom(Head(e), wd)
         IN  IF ~h.ok
             THEN [ok |-> FALSE, e |-> <<>>]
             ELSE LET t == EncodeElems(Tail(e), wd)
                  IN  [ok |-> t.ok, e |-> <<Atom(h.k, h.s)>> \o t.e]

\* the JSON value written for v, as json.load reads it back; ok is FALSE
\* when convert_attr raises TypeError somewhere inside v
EncodeValue(v, wd) ==
    IF NativeScalar(v.k)
    THEN [ok |-> TRUE, val |-> v]
    ELSE IF v.k \in {"list", "tuple"}
         THEN LET r == EncodeElems(v.e, wd)
              IN  [ok |-> r.ok, val |-> Val("list", "", r.e)]
         ELSE LET c == convert_attr(v, wd)
              IN  [ok |-> c.ok, val |-> Scalar(c.k, c.s)]

\* the chunks of the object reach the file in order: pairs written before
\* the value that raises stay in the file, and the closing brace is missing
RECURSIVE DumpPairs(_, _, _)
DumpPairs(items, wd, done) ==
    IF items = <<>>
    THEN [outcome |-> "ok", content |-> JObject(done)]
    ELSE LET r == EncodeValue(Head(items).val, wd)
         IN  IF ~r.ok
             THEN [outcome |-> "TypeError",
                   content |-> [kind |-> "partial", pairs |-> done, top |-> None]]
             ELSE DumpPairs(Tail(items), wd, Append(done, Pair(Head(items).key, r.val)))

json_dump(items, wd) == DumpPairs(items, wd, <<>>)

\* _attrs_to_save: the tracked names with their current values, in order
AttrsToSave(t, attrs) ==
    [i \in 1..Len(attrs) |-> Pair(attrs[i], getattr(t, attrs[i]))]

---------------------------------------------------------------------------
(* save *)

Range(f) == {f[i] : i \in DOMAIN f}

NewFile(content) == [exists |-> TRUE, r |-> TRUE, w |-> TRUE, content |-> content]

EmptyContent == [kind |-> "empty", pairs |-> <<>>, top |-> None]

\* self.file.touch(): creates an empty file when there is none
touch(fs, ds, p) ==
    IF PathExists(fs, ds, p)
    THEN [outcome |-> "ok", fs |-> fs]
    ELSE IF ~ParentExists(ds, p)
         THEN [outcome |-> "FileNotFoundError", fs |-> fs]
         ELSE IF ~ds[p.dir].w
              THEN [outcome |-> "PermissionError", fs |-> fs]
              ELSE [outcome |-> "ok", fs |-> [fs EXCEPT ![p] = NewFile(EmptyContent)]]

\* touch, then open(mode='w'), which truncates, then json.dump, whose
\* chunks are in the file when the `with` block closes it
save(fs, ds, kp, t, wd) ==
    LET tc == touch(fs, ds, kp.file)
    IN  IF tc.outcome # "ok"
        THEN tc
        ELSE IF ~tc.fs[kp.file].w
             THEN [outcome |-> "PermissionError", fs |-> tc.fs]
             ELSE LET d == json_dump(AttrsToSave(t, kp.attrs), wd)
                  IN  [outcome |-> d.outcome,
                       fs |-> [tc.fs EXCEPT ![kp.file].content = d.content]]

---------------------------------------------------------------------------
(* set_attr and setup *)

\* setters: os.PathLike -> lambda obj, name, p: setattr(obj, name, Path(p))
setters == <<"os.PathLike">>

\* variant: the setter assigns the str and builds no Path
ApplySetter_Raw(type, t, name, raw) ==
    CASE type = "os.PathLike" ->
        IF raw.k = "str"
        THEN [outcome |-> "ok", obj |-> setattr(t, name, raw)]
        ELSE [outcome |-> "TypeError", obj |-> t]

\* Path(p) raises TypeError unless p is a str
ApplySetter(type, t, name, raw) ==
    CASE type = "os.PathLike" ->
        IF raw.k = "str"
        THEN [outcome |-> "ok", obj |-> setattr(t, name, Scalar("path", raw.s))]
        ELSE [outcome |-> "TypeError", obj |-> t]

Call(how, name, raw) == [how |-> how, name |-> name, raw |-> raw]

\* variant: the assignment after the loop is missing
RECURSIVE SetFrom_NoFallback(_, _, _, _)
SetFrom_NoFallback(i, t, name, value) ==
    IF i > Len(setters)
    THEN [outcome |-> "ok", obj |-> t, call |-> Call("setattr", name, value)]
    ELSE IF isinstance(getattr(t, name), setters[i])
         THEN LET r == ApplySetter(setters[i], t, name, value)
              IN  [outcome |-> r.outcome, obj |-> r.obj,
                   call |-> Call(setters[i], name, value)]
         ELSE SetFrom_NoFallback(i + 1, t, name, value)

\* variant: the isinstance test is negated
RECURSIVE SetFrom_Inverted(_, _, _, _)
SetFrom_Inverted(i, t, name, value) ==
    IF i > Len(setters)
    THEN [outcome |-> "ok", obj |-> setattr(t, name, value),
          call |-> Call("setattr", name, value)]
    ELSE IF ~isinstance(getattr(t, name), setters[i])
         THEN LET r == ApplySetter(setters[i], t, name, value)
              IN  [outcome |-> r.outcome, obj |-> r.obj,
                   call |-> Call(setters[i], name, value)]
         ELSE SetFrom_Inverted(i + 1, t, name, value)

\* variant: the return after the setter is missing, so the plain
\* assignment follows it
RECURSIVE SetFrom_FallThrough(_, _, _, _)
SetFrom_FallThrough(i, t, name, value) ==
    IF i > Len(setters)
    THEN [outcome |-> "ok", obj |-> setattr(t, name, value),
          call |-> Call("setattr", name, value)]
    ELSE IF isinstance(getattr(t, name), setters[i])
         THEN LET r == ApplySetter(setters[i], t, name, value)
              IN  [outcome |-> r.outcome,
                   obj |-> IF r.outcome = "ok" THEN setattr(r.obj, name, value) ELSE r.obj,
                   call |-> Call(setters[i], name, value)]
         ELSE SetFrom_FallThrough(i + 1, t, name, value)

\* the loop of set_attr over the setters, from the i-th on, and the plain
\* assignment after it
RECURSIVE SetFrom(_, _, _, _)
SetFrom(i, t, name, value) ==
    IF i > Len(setters)
    THEN [outcome |-> "ok", obj |-> setattr(t, name, value),
          call |-> Call("setattr", name, value)]
    ELSE IF isinstance(getattr(t, name), setters[i])
         THEN LET r == ApplySetter(setters[i], t, name, value)
              IN  [outcome |-> r.outcome, obj |-> r.obj,
                   call |-> Call(setters[i], name, value)]
         ELSE SetFrom(i + 1, t, name, value)

set_attr(t, name, value) == SetFrom(1, t, name, value)

\* variant: a key is skipped when the target has no such attribute, not
\* when it is not tracked
RECURSIVE RestorePairs_AnyAttr(_, _, _, _)
RestorePairs_AnyAttr(pairs, t, attrs, lg) ==
    IF pairs = <<>>
    THEN [outcome |-> "ok", obj |-> t, log |-> lg]
    ELSE IF ~hasattr(t, Head(pairs).key)
         THEN RestorePairs_AnyAttr(Tail(pairs), t, attrs, lg)
         ELSE LET r == set_attr(t, Head(pairs).key, Head(pairs).val)
              IN  IF r.outcome # "ok"
                  THEN [outcome |-> r.outcome, obj |-> r.obj, log |-> Append(lg, r.call)]
                  ELSE RestorePairs_AnyAttr(Tail(pairs), r.obj, attrs, Append(lg, r.call))

\* the loop of setup over saved_attrs.items(), in the order of the file
RECURSIVE RestorePairs(_, _, _, _)
RestorePairs(pairs, t, attrs, lg) ==
    IF pairs = <<>>
    THEN [outcome |-> "ok", obj |-> t, log |-> lg]
    ELSE IF Head(pairs).key \notin Range(attrs)
         THEN RestorePairs(Tail(pairs), t, attrs, lg)
         ELSE LET r == set_attr(t, Head(pairs).key, Head(pairs).val)
              IN  IF r.outcome # "ok"
                  THEN [outcome |-> r.outcome, obj |-> r.obj, log |-> Append(lg, r.call)]
                  ELSE RestorePairs(Tail(pairs), r.obj, attrs, Append(lg, r.call))

\* variant: the file is opened without asking whether it exists
setup_NoExistsCheck(fs, ds, kp, t) ==
    IF ~PathExists(fs, ds, kp.file)
    THEN [outcome |-> "FileNotFoundError", obj |-> t, log |-> <<>>]
    ELSE IF ~fs[kp.file].r
         THEN [outcome |-> "PermissionError", obj |-> t, log |-> <<>>]
         ELSE IF fs[kp.file].content.kind # "json"
              THEN [outcome |-> "JSONDecodeError", obj |-> t, log |-> <<>>]
              ELSE IF fs[kp.file].content.top.k # "object"
                   THEN [outcome |-> "TypeError", obj |-> t, log |-> <<>>]
                   ELSE RestorePairs(fs[kp.file].content.pairs, t, kp.attrs, <<>>)

setup(fs, ds, kp, t) ==
    IF ~PathExists(fs, ds, kp.file)
    THEN [outcome |-> "ok", obj |-> t, log |-> <<>>]
    ELSE IF ~fs[kp.file].r
         THEN [outcome |-> "PermissionError", obj |-> t, log |-> <<>>]
         ELSE IF fs[kp.file].content.kind # "json"
              THEN [outcome |-> "JSONDecodeError", obj |-> t, log |-> <<>>]
              ELSE IF fs[kp.file].content.top.k # "object"
                   THEN [outcome |-> "TypeError", obj |-> t, log |-> <<>>]
                   ELSE RestorePairs(fs[kp.file].content.pairs, t, kp.attrs, <<>>)

---------------------------------------------------------------------------
(* __init__ *)

NoKeeper == [made |-> FALSE, file |-> NoFile, attrs |-> <<>>]

\* an attribute name that is not a str
NotAStr == "<int>"

RECURSIVE DefineFrom(_, _, _)
DefineFrom(i, args, t) ==
    IF i > Len(args)
    THEN "ok"
    ELSE IF args[i] = NotAStr \/ ~hasattr(t, args[i])
         THEN "AttributeError"
         ELSE DefineFrom(i + 1, args, t)

_define_attrs(args, t) == DefineFrom(1, args, t)

\* validate_file_path first, then _define_attrs; nothing is written
init(fs, ds, file, args, t) ==
    LET v == validate_file_path(fs, ds, file)
    IN  IF v.outcome # "ok"
        THEN [outcome |-> v.outcome, keeper |-> NoKeeper]
        ELSE IF _define_attrs(args, t) # "ok"
             THEN [outcome |-> "AttributeError", keeper |-> NoKeeper]
             ELSE [outcome |-> "ok",
                   keeper |-> [made |-> TRUE, file |-> v.file, attrs |-> args]]

\* Path.cwd() / 'preferences.json', evaluated when the def statement runs
DefaultFileAt(wd) == Path(wd, PrefName)

---------------------------------------------------------------------------
(* The caller's choices *)

\* the attribute names a keeper is asked to track
AttrChoices == {<<"a">>, <<"c">>, <<"a", "c">>}

\* arguments that _define_attrs rejects
BadAttrChoices == {<<"a", "zz">>, <<NotAStr>>}

RW == [exists |-> TRUE, r |-> TRUE, w |-> TRUE]

Perms == {[exists |-> TRUE, r |-> r, w |-> w] : r \in BOOLEAN, w \in BOOLEAN}

\* state files found on disk that no save() of this run wrote
InitContents ==
    { [kind |-> "invalid", pairs |-> <<>>, top |-> None],
      JOther(Val("list", "", <<Atom("int", "1")>>)),
      JObject(<<Pair("zz", Scalar("int", "1")), Pair("a", Scalar("str", "/a/x"))>>),
      JObject(<<Pair("zz", Scalar("int", "1")),
                Pair("c", Scalar("str", "/a/x")),
                Pair("a", Scalar("int", "1"))>>) }

\* the test class: class_attr is a str defined on the class, the other
\* attribute is set on the instance by __init__
InitObj ==
    [own |-> [n \in AttrNames |-> IF n = "a" THEN Scalar("str", "x") ELSE Absent],
     cls |-> [n \in AttrNames |-> IF n = "c" THEN Scalar("str", "x") ELSE Absent]]

NoSaved == [n \in AttrNames |-> Absent]

Snapshot(t, attrs) ==
    [n \in AttrNames |-> IF n \in Range(attrs) THEN getattr(t, n) ELSE Absent]

Op(op) == [op |-> op, file |-> NoFile, attrs |-> <<>>, rep |-> 1]

Min(a, b) == IF a < b THEN a ELSE b

---------------------------------------------------------------------------
(* Actions *)

\* keeper.save()
Save ==
    /\ keeper.made
    /\ LET r == save(files, dirs, keeper, obj, cwd)
       IN  /\ files' = r.fs
           /\ outcome' = r.outcome
           /\ saved' = IF r.outcome = "ok"
                       THEN Snapshot(obj, keeper.attrs)
                       ELSE IF r.fs = files THEN saved ELSE NoSaved
    /\ dirty' = {}
    /\ lastOp' = Op("save")
    /\ log' = <<>>
    /\ UNCHANGED <<dirs, cwd, defaultFile, keeper, obj>>

\* keeper.setup()
Setup ==
    /\ keeper.made
    /\ LET r == setup(files, dirs, keeper, obj)
       IN  /\ obj' = r.obj
           /\ outcome' = r.outcome
           /\ log' = r.log
    /\ lastOp' = [Op("setup") EXCEPT
                     !.rep = IF lastOp.op = "setup" THEN Min(lastOp.rep + 1, MaxRepeat) ELSE 1]
    /\ UNCHANGED <<dirs, files, cwd, defaultFile, keeper, saved, dirty>>

\* the caller assigns an attribute of the target: setattr(obj, n, v)
Mutate(n, v) ==
    /\ getattr(obj, n) # v
    /\ obj' = setattr(obj, n, v)
    /\ dirty' = dirty \cup {n}
    /\ lastOp' = Op("mutate")
    /\ outcome' = "ok"
    /\ log' = <<>>
    /\ UNCHANGED <<dirs, files, cwd, defaultFile, keeper, saved>>

\* os.chdir(d)
Chdir(d) ==
    /\ d # cwd
    /\ dirs[d].exists
    /\ cwd' = d
    /\ lastOp' = Op("chdir")
    /\ outcome' = "ok"
    /\ log' = <<>>
    /\ UNCHANGED <<dirs, files, defaultFile, keeper, obj, saved, dirty>>

\* import of the module: the class body runs, and with it the def of
\* __init__, which evaluates the default of `file`
LoadModule ==
    /\ defaultFile = NoFile
    /\ defaultFile' = DefaultFileAt(cwd)
    /\ lastOp' = Op("load")
    /\ outcome' = "ok"
    /\ log' = <<>>
    /\ UNCHANGED <<dirs, files, cwd, keeper, obj, saved, dirty>>

\* JSONAttributeKeeper(obj, args, file); a construction that raises binds
\* no keeper
Construct(file, args) ==
    /\ defaultFile # NoFile
    /\ LET r == init(files, dirs, file, args, obj)
       IN  /\ outcome' = r.outcome
           /\ keeper' = IF r.outcome = "ok" THEN r.keeper ELSE keeper
    /\ lastOp' = [op |-> "construct", file |-> file, attrs |-> args, rep |-> 1]
    /\ log' = <<>>
    /\ UNCHANGED <<dirs, files, cwd, defaultFile, obj, saved, dirty>>

\* JSONAttributeKeeper(obj, args): `file` takes the default that the def
\* statement evaluated
ConstructDefault(args) ==
    /\ defaultFile # NoFile
    /\ LET r == init(files, dirs, defaultFile, args, obj)
       IN  /\ outcome' = r.outcome
           /\ keeper' = IF r.outcome = "ok" THEN r.keeper ELSE keeper
    /\ lastOp' = [op |-> "construct_default", file |-> defaultFile, attrs |-> args, rep |-> 1]
    /\ log' = <<>>
    /\ UNCHANGED <<dirs, files, cwd, defaultFile, obj, saved, dirty>>

---------------------------------------------------------------------------
(* Spec: a constructed keeper in use *)

KeeperFile == Path("/a", PrefName)

Init ==
    /\ dirs = [d \in AllDirs |-> IF d \in Dirs THEN RW ELSE NoSuchDir]
    /\ cwd \in Dirs
    /\ defaultFile = DefaultFileAt("/a")
    /\ obj = InitObj
    /\ \E c \in {NoContent} \cup InitContents :
           files = [p \in Paths |->
                       IF p = KeeperFile /\ c # NoContent THEN NewFile(c) ELSE NoSuchFile]
    /\ \E args \in AttrChoices :
           LET r == init(files, dirs, KeeperFile, args, obj)
           IN  r.outcome = "ok" /\ keeper = r.keeper
    /\ saved = NoSaved
    /\ dirty = {}
    /\ lastOp = Op("init")
    /\ outcome = "ok"
    /\ log = <<>>

Next ==
    \/ Save
    \/ Setup
    \/ \E n \in AttrNames, v \in CallerValues : Mutate(n, v)

Spec == Init /\ [][Next]_vars

---------------------------------------------------------------------------
(* SpecConstruct: loading the module and constructing keepers *)

FileStates ==
    {NoSuchFile}
        \cup {[exists |-> TRUE, r |-> q.r, w |-> q.w, content |-> JObject(<<>>)] : q \in Perms}
        \cup {NewFile(JObject(<<Pair("a", Scalar("str", "/b/x"))>>))}

InitConstruct ==
    /\ \E pb \in {NoSuchDir} \cup Perms :
           dirs = [d \in AllDirs |-> IF d = "/a" THEN RW ELSE IF d = "/b" THEN pb ELSE NoSuchDir]
    /\ files \in [Paths -> FileStates]
    /\ \A p \in Paths : ~dirs[p.dir].exists => files[p] = NoSuchFile
    /\ cwd = "/a"
    /\ defaultFile = NoFile
    /\ keeper = NoKeeper
    /\ obj = InitObj
    /\ saved = NoSaved
    /\ dirty = {}
    /\ lastOp = Op("init")
    /\ outcome = "ok"
    /\ log = <<>>

NextConstruct ==
    \/ LoadModule
    \/ \E d \in Dirs : Chdir(d)
    \/ \E p \in Paths, args \in AttrChoices \cup BadAttrChoices : Construct(p, args)
    \/ \E args \in AttrChoices \cup BadAttrChoices : ConstructDefault(args)
    \/ Setup

SpecConstruct == InitConstruct /\ [][NextConstruct]_vars

---------------------------------------------------------------------------
(* Vocabulary of the properties *)

Tracked == Range(keeper.attrs)

HasSaved == saved # NoSaved

FilePresent(p) == dirs[p.dir].exists /\ files[p].exists

IsConstruct(op) == op \in {"construct", "construct_default"}

ValidNames(args) == \A i \in DOMAIN args : args[i] \in AttrNames /\ hasattr(obj, args[i])

\* encoded by json without the help of a converter
JSONNative(v) ==
    \/ v.k \in {"str", "int", "null"}
    \/ /\ v.k \in {"list", "tuple"}
       /\ \A i \in DOMAIN v.e : v.e[i].k \in {"str", "int", "null"}

\* JSON-native, and equal to what json.load returns for it (a tuple is
\* read back as a list)
ReadBackEqual(v) == JSONNative(v) /\ v.k # "tuple"

\* encoded by json only with the help of the path converter
NeedsConverter(v) ==
    \/ v.k = "path"
    \/ /\ v.k \in {"list", "tuple"}
       /\ \E i \in DOMAIN v.e : v.e[i].k = "path"

KeysIn(c) == {c.pairs[i].key : i \in DOMAIN c.pairs}

InTracked(q) == q.key \in Tracked

\* the pairs of a state file that carry a tracked name, in file order
TrackedPairs(c) == SelectSeq(c.pairs, InTracked)

ClassLevel == {n \in AttrNames : InitObj.cls[n] # Absent}

---------------------------------------------------------------------------
(* C1 *)

\* C1, as stated: when every tracked value was JSON-native at save(), then
\* after save(), any mutation of the tracked attributes (path-like values
\* included) and setup(), every tracked attribute holds its save-time value.
C1_RoundTripAnyMutation ==
    (lastOp.op = "setup" /\ HasSaved /\ \A n \in Tracked : JSONNative(saved[n]))
        => \A n \in Tracked : getattr(obj, n) = saved[n]

\* C1, amended: when every tracked value at save() was a str, an int, null
\* or a list of these (json.load returns it unchanged), and no tracked
\* attribute holds a path-like value when setup() is called, setup()
\* succeeds and every tracked attribute holds its save-time value.
C1_RoundTrip ==
    [][ ( /\ lastOp'.op = "setup"
          /\ HasSaved
          /\ \A n \in Tracked : ReadBackEqual(saved[n]) /\ getattr(obj, n).k # "path" )
        => ( /\ outcome' = "ok"
             /\ \A n \in Tracked : getattr(obj', n) = saved[n] ) ]_vars

C1_Witness ==
    /\ lastOp.op = "setup" /\ outcome = "ok" /\ HasSaved
    /\ Cardinality(Tracked) = 2 /\ dirty = Tracked
    /\ \A n \in Tracked : ReadBackEqual(saved[n]) /\ getattr(obj, n) = saved[n]
    /\ \E n \in Tracked : saved[n].k = "list"
    /\ Len(log) = 2 /\ \A i \in DOMAIN log : log[i].how = "setattr"

---------------------------------------------------------------------------
(* C2 *)

\* C2, as stated: a save() either completes and leaves a complete JSON
\* object in the backing file, or fails and leaves every file as it was
\* before the call.
C2_NoPartialWrites ==
    [][ lastOp'.op = "save"
        => \/ /\ outcome' = "ok"
              /\ files'[keeper.file].exists
              /\ files'[keeper.file].content.kind = "json"
              /\ files'[keeper.file].content.top.k = "object"
           \/ /\ outcome' # "ok"
              /\ files' = files ]_vars

---------------------------------------------------------------------------
(* C3 *)

\* C3, as stated: when every tracked value at save() needed the path
\* converter (a path, relative or absolute, at top level or inside a
\* sequence), then after save(), any mutation and setup(), every tracked
\* attribute holds its save-time value.
C3_RoundTripAnyPath ==
    (lastOp.op = "setup" /\ HasSaved /\ \A n \in Tracked : NeedsConverter(saved[n]))
        => \A n \in Tracked : getattr(obj, n) = saved[n]

\* C3, amended: when every tracked value at save() was a top-level absolute
\* path, and every tracked attribute still holds a path when setup() is
\* called, setup() succeeds and every tracked attribute holds its save-time
\* value.
C3_RoundTrip ==
    [][ ( /\ lastOp'.op = "setup"
          /\ HasSaved
          /\ \A n \in Tracked :
                 /\ saved[n].k = "path"
                 /\ saved[n].s \in AbsNames
                 /\ getattr(obj, n).k = "path" )
        => ( /\ outcome' = "ok"
             /\ \A n \in Tracked : getattr(obj', n) = saved[n] ) ]_vars

C3_Witness ==
    /\ lastOp.op = "setup" /\ outcome = "ok" /\ HasSaved
    /\ dirty = Tracked
    /\ \A n \in Tracked :
           saved[n].k = "path" /\ saved[n].s \in AbsNames /\ getattr(obj, n) = saved[n]
    /\ log # <<>> /\ \A i \in DOMAIN log : log[i].how = "os.PathLike"

---------------------------------------------------------------------------
(* C4 *)

\* C4: setup() assigns only attributes whose name is tracked and is a key
\* of the file; the class and the attributes of other names are left alone,
\* tracked names absent from the file keep their value, and the keys that
\* are not tracked change nothing: the outcome and the target are those of
\* setup() on the same file without them.
C4_RestoreFrame ==
    [][ lastOp'.op = "setup"
        => LET c == files[keeper.file].content
               stripped == [files EXCEPT ![keeper.file].content.pairs = TrackedPairs(c)]
               r == setup(stripped, dirs, keeper, obj)
           IN  /\ \A n \in AttrNames :
                      obj'.own[n] # obj.own[n] => n \in Tracked \cap KeysIn(c)
               /\ obj'.cls = obj.cls
               /\ \A i \in DOMAIN log' : log'[i].name \in Tracked \cap KeysIn(c)
               /\ outcome' = r.outcome
               /\ obj' = r.obj ]_vars

C4_Witness ==
    /\ lastOp.op = "setup" /\ outcome = "ok"
    /\ FilePresent(keeper.file)
    /\ KeysIn(files[keeper.file].content) \ Tracked # {}
    /\ Tracked \ KeysIn(files[keeper.file].content) # {}
    /\ log # <<>>

---------------------------------------------------------------------------
(* C5 *)

\* C5, as stated: construction against a path that does not exist succeeds
\* whenever the parent directory exists and is writable (the attribute
\* names being valid).
C5_WritableParentSuffices ==
    ( /\ IsConstruct(lastOp.op)
      /\ ~FilePresent(lastOp.file)
      /\ dirs[lastOp.file.dir].exists
      /\ dirs[lastOp.file.dir].w
      /\ ValidNames(lastOp.attrs) )
        => outcome = "ok"

\* C5, amended: construction against a path that does not exist succeeds
\* whenever the parent directory exists and is readable and writable (the
\* attribute names being valid), and it creates no file; setup() on a
\* keeper whose file does not exist returns without error and leaves the
\* target and the files unchanged.
C5_MissingFile ==
    [][ /\ ( /\ IsConstruct(lastOp'.op)
             /\ ~FilePresent(lastOp'.file)
             /\ dirs[lastOp'.file.dir].exists
             /\ dirs[lastOp'.file.dir].r
             /\ dirs[lastOp'.file.dir].w
             /\ ValidNames(lastOp'.attrs) )
           => ( /\ outcome' = "ok"
                /\ keeper'.made
                /\ keeper'.file = lastOp'.file
                /\ files' = files
                /\ dirs' = dirs )
        /\ ( lastOp'.op = "setup" /\ ~FilePresent(keeper.file) )
           => ( /\ outcome' = "ok"
                /\ obj' = obj
                /\ files' = files ) ]_vars

C5_Witness ==
    /\ lastOp.op = "setup" /\ outcome = "ok"
    /\ keeper.made /\ ~FilePresent(keeper.file)
    /\ dirs[keeper.file.dir].r /\ dirs[keeper.file.dir].w
    /\ obj = InitObj /\ log = <<>>

---------------------------------------------------------------------------
(* C6 *)

\* C6: a setup() that directly follows a setup() leaves the target as the
\* first one left it and ends as the first one ended.
C6_SetupIdempotent ==
    [][ (lastOp'.op = "setup" /\ lastOp'.rep >= 2)
        => (obj' = obj /\ outcome' = outcome) ]_vars

C6_Witness ==
    /\ lastOp.op = "setup" /\ lastOp.rep >= 2
    /\ outcome = "ok"
    /\ \E i \in DOMAIN log : log[i].how = "os.PathLike"

---------------------------------------------------------------------------
(* C7 *)

\* C7: construction fails with FileNotFoundError when neither the file nor
\* its parent directory exists; otherwise with PermissionError when read or
\* write permission is missing on the file, or on the parent directory when
\* there is no file; otherwise path validation passes and, the attribute
\* names being valid, the keeper's file is the given path.  No case changes
\* a file or a directory.
C7_PathValidation ==
    [][ IsConstruct(lastOp'.op)
        => LET f == lastOp'.file
               present == FilePresent(f)
               parent == dirs[f.dir]
               allowed == IF present
                          THEN files[f].r /\ files[f].w
                          ELSE parent.r /\ parent.w
           IN  /\ (~present /\ ~parent.exists) => outcome' = "FileNotFoundError"
               /\ ((present \/ parent.exists) /\ ~allowed) => outcome' = "PermissionError"
               /\ ((present \/ parent.exists) /\ allowed)
                      => /\ outcome' \in {"ok", "AttributeError"}
                         /\ ValidNames(lastOp'.attrs)
                                => (outcome' = "ok" /\ keeper'.made /\ keeper'.file = f)
               /\ files' = files
               /\ dirs' = dirs ]_vars

C7_Witness ==
    /\ lastOp.op = "construct"
    /\ outcome = "PermissionError"
    /\ FilePresent(lastOp.file)
    /\ files[lastOp.file].r /\ ~files[lastOp.file].w

---------------------------------------------------------------------------
(* C8 *)

\* C8, as stated: when a tracked attribute is a class-level default, after
\* save(), a mutation of the instance's own copy and setup(), the instance
\* holds the saved value and the class is unchanged.
C8_ClassAttrRestored ==
    \A n \in ClassLevel \cap Tracked \cap dirty :
        (lastOp.op = "setup" /\ outcome = "ok" /\ HasSaved /\ saved[n] = obj.cls[n])
            => (obj.own[n] = saved[n] /\ obj.cls = InitObj.cls)

\* C8, amended: save() and setup() never change the class or what another
\* instance sees; and when the saved value of a tracked class-level
\* attribute is the class default, json.load returns it unchanged, and no
\* tracked attribute holds a path-like value when setup() is called,
\* setup() succeeds and puts the saved value on the instance.
C8_ClassAttrIsolation ==
    [][ /\ lastOp'.op \in {"save", "setup"}
           => /\ obj'.cls = obj.cls
              /\ \A n \in AttrNames :
                     getattr(FreshInstance(obj'), n) = getattr(FreshInstance(obj), n)
        /\ ( /\ lastOp'.op = "setup"
             /\ HasSaved
             /\ \A n \in Tracked : getattr(obj, n).k # "path" )
           => \A n \in ClassLevel \cap Tracked :
                  (saved[n] = obj.cls[n] /\ ReadBackEqual(saved[n]))
                      => (outcome' = "ok" /\ obj'.own[n] = saved[n]) ]_vars

C8_Witness ==
    /\ lastOp.op = "setup" /\ outcome = "ok" /\ HasSaved
    /\ \E n \in ClassLevel \cap Tracked \cap dirty :
           /\ saved[n] = obj.cls[n]
           /\ obj.own[n] = saved[n]
           /\ \E i \in DOMAIN log : log[i].name = n /\ log[i].how = "setattr"
    /\ obj.cls = InitObj.cls

---------------------------------------------------------------------------
(* C9 *)

\* C9, as stated: a keeper constructed without a file location has as its
\* file preferences.json under the working directory of the time of the
\* construction.
C9_DefaultFollowsCwd ==
    (lastOp.op = "construct_default" /\ outcome = "ok")
        => keeper.file = Path(cwd, PrefName)

---------------------------------------------------------------------------
(* C10 *)

====
